---- MODULE Spec2Model ----
(***************************************************************************)
(* The programs of the repository.  First, and in most detail, the         *)
(* build-pipeline engine of src/custom-cicd-server/main.go.                *)
(*                                                                         *)
(* triggerBuild (POST /build) loads the pipeline, generates a build id,    *)
(* stores a placeholder record in the package-level map buildStatuses and  *)
(* starts a goroutine that runs ExecutePipeline and then stores the final  *)
(* record.  checkStatus (GET /status/{id}) reads the map.  Every HTTP      *)
(* handler runs in a goroutine of its own, so handlers and executors       *)
(* interleave freely.                                                      *)
(*                                                                         *)
(* buildStatuses is a plain Go map used without any lock.  A map write is  *)
(* modelled in two steps, as the runtime performs it: mapassign raises the *)
(* map's hashWriting flag (or throws "concurrent map writes" when it is    *)
(* already raised), and the store of the element lowers it again.  A map   *)
(* read throws "concurrent map read and map write" when the flag is        *)
(* raised.  A throw, like the panic of an out-of-range index, ends the     *)
(* whole process: variable fatal holds the message and no action is        *)
(* enabled any more.  Outcomes of the race other than "the accesses        *)
(* happen one after the other" and "the runtime throws" are not modelled.  *)
(*                                                                         *)
(* BuildStatus.Logs is a string.  It is modelled as the sequence of log    *)
(* entries the text holds: "" is the empty sequence, and every             *)
(* fmt.Sprintf of the source yields a text of exactly one entry.           *)
(***************************************************************************)
EXTENDS Integers, Sequences, FiniteSets, TLC

\* Number of POST /build requests the model follows.
MaxBuilds == 2

\* Longest pipeline that config.yaml holds.
MaxSteps == 2

Requests == 1..MaxBuilds

\* The values generateUUID returns; NoSuchID is a string it never returns.
UUIDs == 1..MaxBuilds

NoSuchID == 0

Nil == "nil"

NoFatal == "none"

ConcurrentMapWrites == "fatal error: concurrent map writes"

ConcurrentMapReadWrite == "fatal error: concurrent map read and map write"

IndexOutOfRange == "panic: runtime error: index out of range [0] with length 0"

\* type PipelineStep: the step at position k of the file is named k.
PipelineStep(k) == [Name : {k}, Cmd : {<<>>, <<"sh">>}]

\* type PipelineConfig: what yaml.Unmarshal can yield for Pipeline.
PipelineConfig ==
    UNION { { p \in [1..n -> UNION { PipelineStep(k) : k \in 1..MaxSteps }] :
                \A k \in 1..n : p[k].Name = k } : n \in 0..MaxSteps }

\* cmd.CombinedOutput(): exit status 0, a non-zero exit status (ExitError,
\* with what the command wrote), or the command could not be started.
CombinedOutput ==
    { [err |-> Nil, output |-> "out"],
      [err |-> "exit status 1", output |-> "out"],
      [err |-> "exec: executable file not found", output |-> ""] }

\* The texts the source formats into Logs, as sequences of entries.
NoLogs == <<>>

StepFailedLogs(name, output) ==
    << [kind |-> "Step failed", step |-> name, text |-> output] >>

StepCompletedLogs(name) ==
    << [kind |-> "Step completed successfully", step |-> name, text |-> ""] >>

PipelineCompletedLogs(status) ==
    << [kind |-> "Pipeline completed with status", step |-> 0, text |-> status] >>

\* type BuildStatus
BuildStatus(id, status, logs) == [ID |-> id, Status |-> status, Logs |-> logs]

NoBody == BuildStatus(NoSuchID, "", NoLogs)

\* lastResp before any query, and the code recorded for a query that the
\* process did not survive.
NoResponse ==
    [id |-> NoSuchID, code |-> 0, body |-> NoBody, returned |-> FALSE, busy |-> FALSE]

ConnectionLost == -1

VARIABLES
    buildStatuses,  \* the map: a function from the ids stored to their records
    hashWriting,    \* the map's hashWriting flag: a write is in progress
    fatal,          \* NoFatal, or the message the process died with
    tpc,            \* per request: where its triggerBuild call is
    config,         \* per request: the pipeline LoadConfig returned
    buildID,        \* per request: the id generateUUID returned (NoSuchID before)
    epc,            \* per request: where its goroutine is
    i,              \* per request: index of the range loop of ExecutePipeline
    err,            \* per request: what ExecutePipeline returned
    ran,            \* per request: the steps started so far, with their results
    lastResp        \* the latest answer of checkStatus

cicdVars == << buildStatuses, hashWriting, fatal, tpc, config, buildID, epc, i, err,
               ran, lastResp >>

(***************************************************************************)
(* The other programs of the repository.  Each is a program of its own:    *)
(* its state is one record, held by one variable, and it has its own       *)
(* specification, in which the variables of the other programs stay        *)
(* NotRunning.                                                             *)
(***************************************************************************)
VARIABLES
    once,           \* src/log-aggregator/main.go: once, logInstance and the callers
    agg,            \* src/log-aggregator/main.go: an Aggregator and its clients
    lb,             \* src/unnamed/part_004: the LoadBalancer and its callers
    scan,           \* src/unnamed/part_005: a call of concurrentPortScan
    watch,          \* src/unnamed/part_007: the goroutine of watchRepo and deploy
    auto,           \* src/unnamed/part_006: a call of automateTasks
    store           \* src/unnamed/part_001: tasks.json and the latest command

NotRunning == "not running"

vars == << cicdVars, once, agg, lb, scan, watch, auto, store >>

\* What each program leaves alone: the variables of all the others.
cicdOthers == << once, agg, lb, scan, watch, auto, store >>

onceOthers == << cicdVars, agg, lb, scan, watch, auto, store >>

aggOthers == << cicdVars, once, lb, scan, watch, auto, store >>

lbOthers == << cicdVars, once, agg, scan, watch, auto, store >>

scanOthers == << cicdVars, once, agg, lb, watch, auto, store >>

watchOthers == << cicdVars, once, agg, lb, scan, auto, store >>

autoOthers == << cicdVars, once, agg, lb, scan, watch, store >>

storeOthers == << cicdVars, once, agg, lb, scan, watch, auto >>

\* No program but the CI/CD server is running.
OthersInit ==
    /\ once = NotRunning
    /\ agg = NotRunning
    /\ lb = NotRunning
    /\ scan = NotRunning
    /\ watch = NotRunning
    /\ auto = NotRunning
    /\ store = NotRunning

handlerVars == << tpc, config, buildID >>

execVars == << epc, i, err, ran >>

mapVars == << buildStatuses, hashWriting >>

TypeOK ==
    /\ hashWriting \in BOOLEAN
    /\ DOMAIN buildStatuses \subseteq UUIDs
    /\ tpc \in [Requests -> {"idle", "loaded", "store", "go", "respond", "responded", "error500",
                             "direct"}]
    /\ epc \in [Requests -> {"none", "loop", "running", "okAssign", "okStore", "failAssign", "failStore",
                             "finalAssign", "finalStore", "done"}]
    /\ \A r \in Requests : config[r] \in PipelineConfig /\ buildID[r] \in UUIDs \cup {NoSuchID}

Init ==
    /\ buildStatuses = << >>
    /\ hashWriting = FALSE
    /\ fatal = NoFatal
    /\ tpc = [r \in Requests |-> "idle"]
    /\ config = [r \in Requests |-> << >>]
    /\ buildID = [r \in Requests |-> NoSuchID]
    /\ epc = [r \in Requests |-> "none"]
    /\ i = [r \in Requests |-> 1]
    /\ err = [r \in Requests |-> Nil]
    /\ ran = [r \in Requests |-> << >>]
    /\ lastResp = NoResponse
    /\ OthersInit

Running == fatal = NoFatal

\* A throw or an unrecovered panic: the process exits, nothing else changes.
Die(msg) ==
    /\ fatal' = msg
    /\ UNCHANGED << buildStatuses, hashWriting, handlerVars, execVars >>

\* Whether the command of some step is executing.
StepExecuting == \E r \in Requests : epc[r] = "running"

\* Whether triggerBuild has sent id to its caller.
Returned(id) == \E r \in Requests : tpc[r] = "responded" /\ buildID[r] = id

(***************************************************************************)
(* The map                                                                 *)
(***************************************************************************)

\* buildStatuses[id] = status, second half: the element is stored and the
\* hashWriting flag is lowered.
MapStore(id, status) ==
    /\ buildStatuses' = (id :> status) @@ buildStatuses
    /\ hashWriting' = FALSE

(***************************************************************************)
(* triggerBuild                                                            *)
(***************************************************************************)

\* Requests are numbered in the order in which their handlers start.
InTurn(r) == IF r = 1 THEN TRUE ELSE tpc[r - 1] # "idle"

\* A generator that returns the same id at every call.
generateFixedID == {1}

\* generateUUID: an id no earlier call returned.
generateUUID == UUIDs \ { buildID[r] : r \in Requests }

\* LoadConfig succeeds and returns the parsed pipeline.
TriggerLoadConfig(r) ==
    /\ Running
    /\ UNCHANGED cicdOthers
    /\ tpc[r] = "idle"
    /\ InTurn(r)
    /\ \E p \in PipelineConfig : config' = [config EXCEPT ![r] = p]
    /\ tpc' = [tpc EXCEPT ![r] = "loaded"]
    /\ UNCHANGED << mapVars, fatal, buildID, execVars, lastResp >>

\* A handler that generates the build id before it looks at LoadConfig's error.
TriggerLoadConfigErrorAfterID(r) ==
    /\ Running
    /\ UNCHANGED cicdOthers
    /\ tpc[r] = "idle"
    /\ InTurn(r)
    /\ \E id \in generateUUID : buildID' = [buildID EXCEPT ![r] = id]
    /\ tpc' = [tpc EXCEPT ![r] = "error500"]
    /\ UNCHANGED << mapVars, fatal, config, execVars, lastResp >>

\* LoadConfig fails (unreadable file, invalid YAML): 500, and return.
TriggerLoadConfigError(r) ==
    /\ Running
    /\ UNCHANGED cicdOthers
    /\ tpc[r] = "idle"
    /\ InTurn(r)
    /\ tpc' = [tpc EXCEPT ![r] = "error500"]
    /\ UNCHANGED << mapVars, fatal, config, buildID, execVars, lastResp >>

\* A placeholder whose struct literal leaves ID out.
PlaceholderWithoutID(id) == BuildStatus(NoSuchID, "In Progress", NoLogs)

\* The placeholder triggerBuild stores.
Placeholder(id) == BuildStatus(id, "In Progress", NoLogs)

\* buildID := an id of ids, and the first half of the map write.
TriggerAssignFrom(r, ids) ==
    /\ Running
    /\ UNCHANGED cicdOthers
    /\ tpc[r] = "loaded"
    /\ IF hashWriting
       THEN Die(ConcurrentMapWrites) /\ UNCHANGED lastResp
       ELSE /\ \E id \in ids : buildID' = [buildID EXCEPT ![r] = id]
            /\ hashWriting' = TRUE
            /\ tpc' = [tpc EXCEPT ![r] = "store"]
            /\ UNCHANGED << buildStatuses, fatal, config, execVars, lastResp >>

\* buildID := generateUUID(), and the first half of the map write.
TriggerAssign(r) == TriggerAssignFrom(r, generateUUID)

\* uuid.New() repeats an id it has returned before (a collision of two
\* random UUIDs), and the first half of the map write.
TriggerAssignCollide(r) ==
    TriggerAssignFrom(r, { buildID[q] : q \in Requests } \ {NoSuchID})

\* A handler that forgets the placeholder (the map is left as it was).
TriggerStoreNothing(r) ==
    /\ Running
    /\ UNCHANGED cicdOthers
    /\ tpc[r] = "store"
    /\ hashWriting' = FALSE
    /\ tpc' = [tpc EXCEPT ![r] = "go"]
    /\ UNCHANGED << buildStatuses, fatal, config, buildID, execVars, lastResp >>

\* The second half of buildStatuses[buildID] = BuildStatus{...}.
TriggerStore(r) ==
    /\ Running
    /\ UNCHANGED cicdOthers
    /\ tpc[r] = "store"
    /\ MapStore(buildID[r], Placeholder(buildID[r]))
    /\ tpc' = [tpc EXCEPT ![r] = "go"]
    /\ UNCHANGED << fatal, config, buildID, execVars, lastResp >>

\* go func(id string) {...}(buildID)
TriggerGo(r) ==
    /\ Running
    /\ UNCHANGED cicdOthers
    /\ tpc[r] = "go"
    /\ tpc' = [tpc EXCEPT ![r] = "respond"]
    /\ epc' = [epc EXCEPT ![r] = "loop"]
    /\ UNCHANGED << mapVars, fatal, config, buildID, i, err, ran, lastResp >>

\* A handler that answers only when the build is over.
TriggerRespondAfterBuild(r) ==
    /\ Running
    /\ UNCHANGED cicdOthers
    /\ tpc[r] = "respond"
    /\ epc[r] = "done"
    /\ tpc' = [tpc EXCEPT ![r] = "responded"]
    /\ UNCHANGED << mapVars, fatal, config, buildID, execVars, lastResp >>

\* json.NewEncoder(w).Encode({"message": ..., "id": buildID})
TriggerRespond(r) ==
    /\ Running
    /\ UNCHANGED cicdOthers
    /\ tpc[r] = "respond"
    /\ tpc' = [tpc EXCEPT ![r] = "responded"]
    /\ UNCHANGED << mapVars, fatal, config, buildID, execVars, lastResp >>

(***************************************************************************)
(* ExecutePipeline, and the goroutine around it                            *)
(***************************************************************************)

\* The id a goroutine writes under, had every goroutine shared one variable
\* holding the id generated last.
SharedID(r) ==
    LET last == CHOOSE q \in Requests :
                    /\ buildID[q] # NoSuchID
                    /\ \A p \in Requests : buildID[p] # NoSuchID => p <= q
    IN  buildID[last]

\* The id parameter of the goroutine, and buildID of ExecutePipeline.
GoroutineID(r) == buildID[r]

\* An executor that takes the map for writing before it runs the step.
ExecStartHoldingMap(r) ==
    /\ Running
    /\ UNCHANGED cicdOthers
    /\ epc[r] = "loop"
    /\ i[r] <= Len(config[r])
    /\ ~hashWriting
    /\ hashWriting' = TRUE
    /\ epc' = [epc EXCEPT ![r] = "running"]
    /\ UNCHANGED << buildStatuses, fatal, handlerVars, i, err, ran, lastResp >>

\* The next iteration of the range loop: exec.Command on step.Cmd[0], which
\* panics when Cmd is empty, and the command is started.
ExecStart(r) ==
    /\ Running
    /\ UNCHANGED cicdOthers
    /\ epc[r] = "loop"
    /\ i[r] <= Len(config[r])
    /\ IF Len(config[r][i[r]].Cmd) = 0
       THEN Die(IndexOutOfRange) /\ UNCHANGED lastResp
       ELSE /\ epc' = [epc EXCEPT ![r] = "running"]
            /\ UNCHANGED << mapVars, fatal, handlerVars, i, err, ran, lastResp >>

\* An executor that takes only a non-zero exit status for a failure.
IsExitError(e) == e = "exit status 1"

\* if err != nil
IsError(e) == e # Nil

\* cmd.CombinedOutput() returns, and err is tested.
ExecStep(r) ==
    /\ Running
    /\ UNCHANGED cicdOthers
    /\ epc[r] = "running"
    /\ LET step == config[r][i[r]] IN
       \E res \in CombinedOutput :
           /\ ran' = [ran EXCEPT ![r] =
                        Append(@, [step |-> i[r], name |-> step.Name,
                                   err |-> res.err, output |-> res.output])]
           /\ epc' = [epc EXCEPT ![r] =
                        IF IsError(res.err) THEN "failAssign" ELSE "okAssign"]
    /\ UNCHANGED << mapVars, fatal, handlerVars, i, err, lastResp >>

\* The loop is over: return nil.
ExecReturnNil(r) ==
    /\ Running
    /\ UNCHANGED cicdOthers
    /\ epc[r] = "loop"
    /\ i[r] > Len(config[r])
    /\ err' = [err EXCEPT ![r] = Nil]
    /\ epc' = [epc EXCEPT ![r] = "finalAssign"]
    /\ UNCHANGED << mapVars, fatal, handlerVars, i, ran, lastResp >>

\* The first half of one of the goroutine's three map writes.
ExecAssign(r, at, next) ==
    /\ Running
    /\ UNCHANGED cicdOthers
    /\ epc[r] = at
    /\ IF hashWriting
       THEN Die(ConcurrentMapWrites) /\ UNCHANGED lastResp
       ELSE /\ hashWriting' = TRUE
            /\ epc' = [epc EXCEPT ![r] = next]
            /\ UNCHANGED << buildStatuses, fatal, handlerVars, i, err, ran, lastResp >>

ExecFailAssign(r) == ExecAssign(r, "failAssign", "failStore")

ExecOkAssign(r) == ExecAssign(r, "okAssign", "okStore")

GoFinalAssign(r) == ExecAssign(r, "finalAssign", "finalStore")

\* The step that ran last.
LastRan(r) == ran[r][Len(ran[r])]

\* An executor that swallows the error of a failed step.
ReturnNilOnFailure(e) == Nil

\* return err
ReturnOnFailure(e) == e

\* An executor that records the failure and goes on with the next step.
ExecFailStoreContinue(r) ==
    /\ Running
    /\ UNCHANGED cicdOthers
    /\ epc[r] = "failStore"
    /\ MapStore(GoroutineID(r),
                BuildStatus(GoroutineID(r), "Failed",
                            StepFailedLogs(LastRan(r).name, LastRan(r).output)))
    /\ i' = [i EXCEPT ![r] = @ + 1]
    /\ epc' = [epc EXCEPT ![r] = "loop"]
    /\ UNCHANGED << fatal, handlerVars, err, ran, lastResp >>

\* err != nil: the record becomes Failed with the step's output, return err.
ExecFailStore(r) ==
    /\ Running
    /\ UNCHANGED cicdOthers
    /\ epc[r] = "failStore"
    /\ MapStore(GoroutineID(r),
                BuildStatus(GoroutineID(r), "Failed",
                            StepFailedLogs(LastRan(r).name, LastRan(r).output)))
    /\ err' = [err EXCEPT ![r] = ReturnOnFailure(LastRan(r).err)]
    /\ epc' = [epc EXCEPT ![r] = "finalAssign"]
    /\ UNCHANGED << fatal, handlerVars, i, ran, lastResp >>

\* err == nil: the record becomes In Progress with the step's name, next step.
ExecOkStore(r) ==
    /\ Running
    /\ UNCHANGED cicdOthers
    /\ epc[r] = "okStore"
    /\ MapStore(GoroutineID(r),
                BuildStatus(GoroutineID(r), "In Progress",
                            StepCompletedLogs(LastRan(r).name)))
    /\ i' = [i EXCEPT ![r] = @ + 1]
    /\ epc' = [epc EXCEPT ![r] = "loop"]
    /\ UNCHANGED << fatal, handlerVars, err, ran, lastResp >>

\* A goroutine that reports every build as a success.
AlwaysSuccess(e) == "Success"

\* status := "Success"; if err != nil { status = "Failed" }
FinalStatus(e) == IF e # Nil THEN "Failed" ELSE "Success"

\* The goroutine's write after ExecutePipeline has returned.
GoFinalStore(r) ==
    /\ Running
    /\ UNCHANGED cicdOthers
    /\ epc[r] = "finalStore"
    /\ MapStore(GoroutineID(r),
                BuildStatus(GoroutineID(r), FinalStatus(err[r]),
                            PipelineCompletedLogs(FinalStatus(err[r]))))
    /\ epc' = [epc EXCEPT ![r] = "done"]
    /\ UNCHANGED << fatal, handlerVars, i, err, ran, lastResp >>

(***************************************************************************)
(* checkStatus                                                             *)
(***************************************************************************)

\* status, exists := buildStatuses[buildID], and the answer: 404 when the id
\* is not in the map, else 200 with the record.  The read throws when a map
\* write is in progress, and then the client gets no answer.
CheckStatus(id) ==
    /\ Running
    /\ UNCHANGED cicdOthers
    /\ IF hashWriting
       THEN /\ fatal' = ConcurrentMapReadWrite
            /\ lastResp' = [id |-> id, code |-> ConnectionLost, body |-> NoBody,
                            returned |-> Returned(id), busy |-> StepExecuting]
            /\ UNCHANGED << mapVars, handlerVars, execVars >>
       ELSE /\ lastResp' =
                  IF id \in DOMAIN buildStatuses
                  THEN [id |-> id, code |-> 200, body |-> buildStatuses[id],
                        returned |-> Returned(id), busy |-> StepExecuting]
                  ELSE [id |-> id, code |-> 404, body |-> NoBody,
                        returned |-> Returned(id), busy |-> StepExecuting]
            /\ UNCHANGED << mapVars, fatal, handlerVars, execVars >>

Next ==
    \/ \E r \in Requests : TriggerLoadConfig(r)
    \/ \E r \in Requests : TriggerLoadConfigError(r)
    \/ \E r \in Requests : TriggerAssign(r)
    \/ \E r \in Requests : TriggerStore(r)
    \/ \E r \in Requests : TriggerGo(r)
    \/ \E r \in Requests : TriggerRespond(r)
    \/ \E r \in Requests : ExecStart(r)
    \/ \E r \in Requests : ExecStep(r)
    \/ \E r \in Requests : ExecReturnNil(r)
    \/ \E r \in Requests : ExecFailAssign(r)
    \/ \E r \in Requests : ExecFailStore(r)
    \/ \E r \in Requests : ExecOkAssign(r)
    \/ \E r \in Requests : ExecOkStore(r)
    \/ \E r \in Requests : GoFinalAssign(r)
    \/ \E r \in Requests : GoFinalStore(r)
    \/ \E id \in UUIDs \cup {NoSuchID} : CheckStatus(id)

Spec == Init /\ [][Next]_vars

\* The steps of request r's goroutine.
ExecNext(r) ==
    \/ ExecStart(r)
    \/ ExecStep(r)
    \/ ExecReturnNil(r)
    \/ ExecFailAssign(r)
    \/ ExecFailStore(r)
    \/ ExecOkAssign(r)
    \/ ExecOkStore(r)
    \/ GoFinalAssign(r)
    \/ GoFinalStore(r)

\* The server when uuid.New() may also repeat an id.
NextCollide ==
    \/ Next
    \/ \E r \in Requests : TriggerAssignCollide(r)

SpecCollide == Init /\ [][NextCollide]_vars

\* ExecutePipeline(steps, buildID) called directly, for any steps and any id,
\* on the empty map, beside the server's handlers: request 1 stands for the
\* direct call, which has no triggerBuild before it.
InitDirect ==
    /\ buildStatuses = << >>
    /\ hashWriting = FALSE
    /\ fatal = NoFatal
    /\ tpc = [r \in Requests |-> IF r = 1 THEN "direct" ELSE "idle"]
    /\ \E p \in PipelineConfig : config = [r \in Requests |-> IF r = 1 THEN p ELSE << >>]
    /\ \E id \in UUIDs : buildID = [r \in Requests |-> IF r = 1 THEN id ELSE NoSuchID]
    /\ epc = [r \in Requests |-> IF r = 1 THEN "loop" ELSE "none"]
    /\ i = [r \in Requests |-> 1]
    /\ err = [r \in Requests |-> Nil]
    /\ ran = [r \in Requests |-> << >>]
    /\ lastResp = NoResponse
    /\ OthersInit

SpecDirect == InitDirect /\ [][Next]_vars

\* The CI/CD server is not the program that is running.
CicdNotRunning ==
    /\ buildStatuses = NotRunning
    /\ hashWriting = NotRunning
    /\ fatal = NotRunning
    /\ tpc = NotRunning
    /\ config = NotRunning
    /\ buildID = NotRunning
    /\ epc = NotRunning
    /\ i = NotRunning
    /\ err = NotRunning
    /\ ran = NotRunning
    /\ lastResp = NotRunning

(***************************************************************************)
(* src/log-aggregator/main.go: getAggregatorInstance                       *)
(*                                                                         *)
(* Handlers call getAggregatorInstance concurrently.  once.Do is modelled  *)
(* as sync.Once performs it: a first look at done; then the mutex m, a     *)
(* second look at done, the function, done set, and the mutex released.    *)
(***************************************************************************)

\* Concurrent callers of getAggregatorInstance, and of GetNextServer.
MaxCallers == 3

Callers == 1..MaxCallers

\* A mutex nobody holds; the nil *Aggregator.
NoHolder == 0

NilAggregator == 0

OnceInit ==
    /\ once = [done |-> FALSE,                 \* once.done
               m |-> NoHolder,                 \* once.m: the caller holding it
               logInstance |-> NilAggregator,  \* or k: the k-th aggregator built
               constructed |-> 0,              \* how often NewAggregator has run
               consumers |-> << >>,            \* one entry per goroutine of Start
               gpc |-> [c \in Callers |-> "idle"],
               got |-> [c \in Callers |-> NilAggregator]]
    /\ CicdNotRunning
    /\ agg = NotRunning
    /\ lb = NotRunning
    /\ scan = NotRunning
    /\ watch = NotRunning
    /\ auto = NotRunning
    /\ store = NotRunning

\* Caller c moves to pc.
OnceGoto(c, pc) == [once EXCEPT !.gpc[c] = pc]

\* A handler calls getAggregatorInstance.
GetCall(c) ==
    /\ once.gpc[c] = "idle"
    /\ once' = OnceGoto(c, "do")
    /\ UNCHANGED onceOthers

\* once.Do: if o.done.Load() == 0 { o.doSlow(f) }
OnceDo(c) ==
    /\ once.gpc[c] = "do"
    /\ once' = OnceGoto(c, IF once.done THEN "return" ELSE "lock")
    /\ UNCHANGED onceOthers

\* A doSlow that does not take the mutex, and does not look at done again.
OnceLockNoMutex(c) ==
    /\ once.gpc[c] = "lock"
    /\ once' = OnceGoto(c, "new")
    /\ UNCHANGED onceOthers

\* doSlow: o.m.Lock(); if o.done.Load() == 0 { ... f() }
OnceLock(c) ==
    /\ once.gpc[c] = "lock"
    /\ once.m = NoHolder
    /\ once' = [once EXCEPT !.m = c,
                            !.gpc[c] = IF once.done THEN "unlock" ELSE "new"]
    /\ UNCHANGED onceOthers

\* logInstance = aggregator.NewAggregator()
NewAggregator(c) ==
    /\ once.gpc[c] = "new"
    /\ once' = [once EXCEPT !.constructed = @ + 1,
                            !.logInstance = once.constructed + 1,
                            !.gpc[c] = "start"]
    /\ UNCHANGED onceOthers

\* logInstance.Start(): one goroutine ranging over the instance's channel.
Start(c) ==
    /\ once.gpc[c] = "start"
    /\ once' = [once EXCEPT !.consumers = Append(@, once.logInstance),
                            !.gpc[c] = "store"]
    /\ UNCHANGED onceOthers

\* defer o.done.Store(1)
OnceStore(c) ==
    /\ once.gpc[c] = "store"
    /\ once' = [once EXCEPT !.done = TRUE, !.gpc[c] = "unlock"]
    /\ UNCHANGED onceOthers

\* defer o.m.Unlock()
OnceUnlock(c) ==
    /\ once.gpc[c] = "unlock"
    /\ once' = [once EXCEPT !.m = NoHolder, !.gpc[c] = "return"]
    /\ UNCHANGED onceOthers

\* return logInstance
GetReturn(c) ==
    /\ once.gpc[c] = "return"
    /\ once' = [once EXCEPT !.got[c] = once.logInstance, !.gpc[c] = "returned"]
    /\ UNCHANGED onceOthers

OnceNext ==
    \/ \E c \in Callers : GetCall(c)
    \/ \E c \in Callers : OnceDo(c)
    \/ \E c \in Callers : OnceLock(c)
    \/ \E c \in Callers : NewAggregator(c)
    \/ \E c \in Callers : Start(c)
    \/ \E c \in Callers : OnceStore(c)
    \/ \E c \in Callers : OnceUnlock(c)
    \/ \E c \in Callers : GetReturn(c)

OnceSpec == OnceInit /\ [][OnceNext]_vars

(***************************************************************************)
(* src/log-aggregator/main.go, package aggregator: Submit, the goroutine   *)
(* of Start, and GetLogs, on an Aggregator that has been started.          *)
(*                                                                         *)
(* Two clients post entries, each its own in order, through handlers that  *)
(* call Submit; a third reads the logs.  The channel input is modelled by  *)
(* the sequence of the entries in its buffer.                              *)
(***************************************************************************)

\* How many entries the first client posts, and the second; cap(a.input).
MaxBulk == 100

MaxFew == 1

InputCap == 100

Submitters == 1..2

Quota(c) == IF c = 1 THEN MaxBulk ELSE MaxFew

\* type LogEntry: Source names the client, Message numbers its entries.
LogEntry(c, k) == [Source |-> c, Message |-> k]

NoEntry == LogEntry(0, 0)

AggInit ==
    /\ agg = [input |-> << >>,       \* a.input, oldest entry first
              logs |-> << >>,        \* a.logs
              mu |-> "free",         \* a.mu: "free", "consumer" or "reader"
              cpc |-> "range",       \* where the goroutine of Start is
              clog |-> NoEntry,      \* its loop variable log
              sent |-> [c \in Submitters |-> 0],  \* Submit calls returned
              rpc |-> "idle"]        \* where the GetLogs call is
    /\ CicdNotRunning
    /\ once = NotRunning
    /\ lb = NotRunning
    /\ scan = NotRunning
    /\ watch = NotRunning
    /\ auto = NotRunning
    /\ store = NotRunning

\* Submit: a.input <- log, which blocks while the buffer is full.
Submit(c) ==
    /\ agg.sent[c] < Quota(c)
    /\ Len(agg.input) < InputCap
    /\ agg' = [agg EXCEPT !.input = Append(@, LogEntry(c, agg.sent[c] + 1)),
                          !.sent[c] = @ + 1]
    /\ UNCHANGED aggOthers

\* for log := range a.input
ConsumerReceive ==
    /\ agg.cpc = "range"
    /\ agg.input # << >>
    /\ agg' = [agg EXCEPT !.clog = Head(agg.input),
                          !.input = Tail(@),
                          !.cpc = "lock"]
    /\ UNCHANGED aggOthers

\* a.mu.Lock()
ConsumerLock ==
    /\ agg.cpc = "lock"
    /\ agg.mu = "free"
    /\ agg' = [agg EXCEPT !.mu = "consumer", !.cpc = "append"]
    /\ UNCHANGED aggOthers

\* A goroutine that puts the entry in front of the logs.
ConsumerPrepend ==
    /\ agg.cpc = "append"
    /\ agg' = [agg EXCEPT !.logs = << agg.clog >> \o @,
                          !.mu = "free",
                          !.cpc = "range"]
    /\ UNCHANGED aggOthers

\* a.logs = append(a.logs, log); fmt.Printf; a.mu.Unlock()
ConsumerAppend ==
    /\ agg.cpc = "append"
    /\ agg' = [agg EXCEPT !.logs = Append(@, agg.clog),
                          !.mu = "free",
                          !.cpc = "range"]
    /\ UNCHANGED aggOthers

\* GetLogs: a.mu.Lock()
GetLogsLock ==
    /\ agg.rpc = "idle"
    /\ agg.mu = "free"
    /\ agg' = [agg EXCEPT !.mu = "reader", !.rpc = "copy"]
    /\ UNCHANGED aggOthers

\* What GetLogs returns: append([]LogEntry(nil), a.logs...)
GetLogsResult == agg.logs

\* GetLogs returns the copy; deferred a.mu.Unlock()
GetLogsReturn ==
    /\ agg.rpc = "copy"
    /\ agg' = [agg EXCEPT !.mu = "free", !.rpc = "idle"]
    /\ UNCHANGED aggOthers

AggNext ==
    \/ \E c \in Submitters : Submit(c)
    \/ ConsumerReceive
    \/ ConsumerLock
    \/ ConsumerAppend
    \/ GetLogsLock
    \/ GetLogsReturn

AggSpec == AggInit /\ [][AggNext]_vars

(***************************************************************************)
(* src/unnamed/part_004: LoadBalancer.GetNextServer                        *)
(*                                                                         *)
(* ProxyHandler runs once per request, each in its own goroutine, and      *)
(* calls GetNextServer.  The list of servers is not empty.                 *)
(***************************************************************************)

\* Longest list of backend servers, and the number of requests followed.
MaxServers == 3

MaxLbCalls == 4

NoServer == 0

\* NewLoadBalancer(servers): backend j of n is named j.
ServerLists == { [j \in 1..n |-> j] : n \in 1..MaxServers }

LbInit ==
    /\ \E list \in ServerLists :
          lb = [servers |-> list,
                mu |-> NoHolder,       \* lb.mu: the caller holding it
                index |-> 0,
                lpc |-> [c \in Callers |-> "idle"],
                server |-> [c \in Callers |-> NoServer],  \* the local variable
                picked |-> << >>,      \* the reads of lb.index, in order
                calls |-> 0]           \* how many calls have begun
    /\ CicdNotRunning
    /\ once = NotRunning
    /\ agg = NotRunning
    /\ scan = NotRunning
    /\ watch = NotRunning
    /\ auto = NotRunning
    /\ store = NotRunning

\* server := lb.GetNextServer(), in ProxyHandler.
LbCall(c) ==
    /\ lb.lpc[c] = "idle"
    /\ lb.calls < MaxLbCalls
    /\ lb' = [lb EXCEPT !.calls = @ + 1, !.lpc[c] = "lock"]
    /\ UNCHANGED lbOthers

\* A GetNextServer without the mutex.
LbLockNoMutex(c) ==
    /\ lb.lpc[c] = "lock"
    /\ lb' = [lb EXCEPT !.lpc[c] = "read"]
    /\ UNCHANGED lbOthers

\* lb.mu.Lock()
LbLock(c) ==
    /\ lb.lpc[c] = "lock"
    /\ lb.mu = NoHolder
    /\ lb' = [lb EXCEPT !.mu = c, !.lpc[c] = "read"]
    /\ UNCHANGED lbOthers

\* server := lb.servers[lb.index]
LbRead(c) ==
    /\ lb.lpc[c] = "read"
    /\ lb' = [lb EXCEPT !.server[c] = lb.servers[lb.index + 1],
                        !.picked = Append(@, [caller |-> c, index |-> lb.index,
                                              server |-> lb.servers[lb.index + 1]]),
                        !.lpc[c] = "write"]
    /\ UNCHANGED lbOthers

\* lb.index = (lb.index + 1) % len(lb.servers)
LbWrite(c) ==
    /\ lb.lpc[c] = "write"
    /\ lb' = [lb EXCEPT !.index = (lb.index + 1) % Len(lb.servers),
                        !.lpc[c] = "unlock"]
    /\ UNCHANGED lbOthers

\* log.Printf, and the deferred lb.mu.Unlock()
LbUnlock(c) ==
    /\ lb.lpc[c] = "unlock"
    /\ lb' = [lb EXCEPT !.mu = NoHolder, !.lpc[c] = "return"]
    /\ UNCHANGED lbOthers

\* return server: the request is proxied and the handler ends.
LbReturn(c) ==
    /\ lb.lpc[c] = "return"
    /\ lb' = [lb EXCEPT !.server[c] = NoServer, !.lpc[c] = "idle"]
    /\ UNCHANGED lbOthers

LbNext ==
    \/ \E c \in Callers : LbCall(c)
    \/ \E c \in Callers : LbLock(c)
    \/ \E c \in Callers : LbRead(c)
    \/ \E c \in Callers : LbWrite(c)
    \/ \E c \in Callers : LbUnlock(c)
    \/ \E c \in Callers : LbReturn(c)

LbSpec == LbInit /\ [][LbNext]_vars

(***************************************************************************)
(* src/unnamed/part_005: concurrentPortScan                                *)
(*                                                                         *)
(* The loop sends a token into the buffered channel sem and starts one     *)
(* goroutine per port; the goroutine scans its port and, deferred, takes   *)
(* a token out of sem.  sem is modelled by the number of tokens in it.     *)
(***************************************************************************)

\* Longest list of ports; cap(sem).
MaxPorts == 11

SemCap == 10

\* The parameter ports: the j-th port of the list is named j.
PortLists == { [j \in 1..n |-> j] : n \in 0..MaxPorts }

ScanInit ==
    /\ \E list \in PortLists :
          scan = [ports |-> list,
                  sem |-> 0,           \* the number of tokens in sem
                  sidx |-> 0,          \* how many ports the loop has finished
                  spc |-> "loop",
                  gst |-> [j \in 1..Len(list) |-> "none"],  \* the goroutines
                  launched |-> << >>]  \* the arguments of the go statements
    /\ CicdNotRunning
    /\ once = NotRunning
    /\ agg = NotRunning
    /\ lb = NotRunning
    /\ watch = NotRunning
    /\ auto = NotRunning
    /\ store = NotRunning

\* A send on a channel as large as the list of ports: it never blocks.
ScanSendUnlimited ==
    /\ scan.spc = "loop"
    /\ scan.sidx < Len(scan.ports)
    /\ scan' = [scan EXCEPT !.sem = @ + 1, !.spc = "go"]
    /\ UNCHANGED scanOthers

\* sem <- true: blocks while sem is full.
ScanSend ==
    /\ scan.spc = "loop"
    /\ scan.sidx < Len(scan.ports)
    /\ scan.sem < SemCap
    /\ scan' = [scan EXCEPT !.sem = @ + 1, !.spc = "go"]
    /\ UNCHANGED scanOthers

\* go func(port int) {...}(port), and the loop goes on.
ScanGo ==
    /\ scan.spc = "go"
    /\ scan' = [scan EXCEPT !.gst[scan.sidx + 1] = "scan",
                            !.launched = Append(@, scan.ports[scan.sidx + 1]),
                            !.sidx = @ + 1,
                            !.spc = "loop"]
    /\ UNCHANGED scanOthers

\* The range loop is over: concurrentPortScan returns.
ScanReturn ==
    /\ scan.spc = "loop"
    /\ scan.sidx = Len(scan.ports)
    /\ scan' = [scan EXCEPT !.spc = "returned"]
    /\ UNCHANGED scanOthers

\* scanPort returns, open or not, and an open port is printed.
ScanPort(p) ==
    /\ scan.gst[p] = "scan"
    /\ scan' = [scan EXCEPT !.gst[p] = "recv"]
    /\ UNCHANGED scanOthers

\* defer func() { <-sem }(): the goroutine ends.
ScanRelease(p) ==
    /\ scan.gst[p] = "recv"
    /\ scan.sem > 0
    /\ scan' = [scan EXCEPT !.sem = @ - 1, !.gst[p] = "done"]
    /\ UNCHANGED scanOthers

ScanNext ==
    \/ ScanSend
    \/ ScanGo
    \/ ScanReturn
    \/ \E p \in 1..MaxPorts : p \in DOMAIN scan.gst /\ ScanPort(p)
    \/ \E p \in 1..MaxPorts : p \in DOMAIN scan.gst /\ ScanRelease(p)

ScanSpec == ScanInit /\ [][ScanNext]_vars

(***************************************************************************)
(* src/unnamed/part_007: watchRepo and deploy                              *)
(*                                                                         *)
(* The file system produces events and errors; the goroutine of watchRepo  *)
(* receives them one at a time and calls deploy for a write or a create.   *)
(* The calls of deploy are numbered in call order.                         *)
(***************************************************************************)

\* How many events and errors the file system produces.
MaxEvents == 3

\* event.Op, a set of fsnotify's bits.
Ops == { {"Create"}, {"Write"}, {"Remove"}, {"Write", "Chmod"}, {"Chmod"} }

\* The three commands of deploy, in the order of its text.
Stages == << "pull", "build", "deploy" >>

WatchInit ==
    /\ watch = [events |-> << >>,   \* the events not yet received, oldest first
                errors |-> 0,       \* the number of errors not yet received
                nev |-> 0,          \* events and errors produced so far
                wpc |-> "select",   \* where the goroutine is
                dpc |-> << >>,      \* per call of deploy: where it is
                cmds |-> << >>]     \* the commands run, with their results
    /\ CicdNotRunning
    /\ once = NotRunning
    /\ agg = NotRunning
    /\ lb = NotRunning
    /\ scan = NotRunning
    /\ auto = NotRunning
    /\ store = NotRunning

\* A change in the watched directory.
FsEvent(op) ==
    /\ watch.nev < MaxEvents
    /\ watch' = [watch EXCEPT !.events = Append(@, op), !.nev = @ + 1]
    /\ UNCHANGED watchOthers

\* The watcher reports an error.
FsError ==
    /\ watch.nev < MaxEvents
    /\ watch' = [watch EXCEPT !.errors = @ + 1, !.nev = @ + 1]
    /\ UNCHANGED watchOthers

\* event.Op&fsnotify.Write == fsnotify.Write || event.Op&fsnotify.Create == fsnotify.Create
IsChange(op) == "Write" \in op \/ "Create" \in op

\* A goroutine that starts the deployment with a go statement.
WatchEventGo ==
    /\ watch.wpc = "select"
    /\ watch.events # << >>
    /\ watch' = [watch EXCEPT !.events = Tail(@),
                              !.dpc = IF IsChange(Head(watch.events))
                                      THEN Append(@, "pull") ELSE @]
    /\ UNCHANGED watchOthers

\* case event, ok := <-watcher.Events: deploy(config) is called for a change.
WatchEvent ==
    /\ watch.wpc = "select"
    /\ watch.events # << >>
    /\ watch' = [watch EXCEPT !.events = Tail(@),
                              !.dpc = IF IsChange(Head(watch.events))
                                      THEN Append(@, "pull") ELSE @,
                              !.wpc = IF IsChange(Head(watch.events))
                                      THEN "deploy" ELSE "select"]
    /\ UNCHANGED watchOthers

\* case err, ok := <-watcher.Errors: log.Println
WatchError ==
    /\ watch.wpc = "select"
    /\ watch.errors > 0
    /\ watch' = [watch EXCEPT !.errors = @ - 1]
    /\ UNCHANGED watchOthers

\* Where deploy goes after a command: on an error it logs and returns.
AfterCommand(stage, ok) ==
    CASE ~ok -> "failed"
      [] stage = "pull" -> "build"
      [] stage = "build" -> "deploy"
      [] OTHER -> "completed"

\* runCommand of the stage call d of deploy is at, and the test of its error.
RunCommand(d) ==
    /\ watch.dpc[d] \in {"pull", "build", "deploy"}
    /\ \E ok \in BOOLEAN :
          watch' = [watch EXCEPT
                        !.cmds = Append(@, [call |-> d, cmd |-> watch.dpc[d], ok |-> ok]),
                        !.dpc[d] = AfterCommand(watch.dpc[d], ok)]
    /\ UNCHANGED watchOthers

\* deploy returns to the loop.
DeployReturn ==
    /\ watch.wpc = "deploy"
    /\ watch.dpc[Len(watch.dpc)] \in {"failed", "completed"}
    /\ watch' = [watch EXCEPT !.wpc = "select"]
    /\ UNCHANGED watchOthers

WatchNext ==
    \/ \E op \in Ops : FsEvent(op)
    \/ FsError
    \/ WatchEvent
    \/ WatchError
    \/ \E d \in 1..MaxEvents : d \in DOMAIN watch.dpc /\ RunCommand(d)
    \/ DeployReturn

WatchSpec == WatchInit /\ [][WatchNext]_vars

(***************************************************************************)
(* src/unnamed/part_006: automateTasks                                     *)
(***************************************************************************)

\* Longest list of servers.
MaxHosts == 4

\* The parameter servers: the j-th server of the list is named j.
HostLists == { [j \in 1..n |-> j] : n \in 0..MaxHosts }

\* executeCommand: the output; NewSession failed; CombinedOutput failed.
ExecuteResults == { "output", "failed to create session", "failed to execute command" }

AutoInit ==
    /\ \E list \in HostLists :
          auto = [servers |-> list,
                  aidx |-> 0,          \* how many servers the loop has finished
                  apc |-> "connect",   \* where automateTasks is
                  clients |-> << >>,   \* the servers whose client.Close is deferred
                  attempts |-> << >>]  \* the calls made, with their results
    /\ CicdNotRunning
    /\ once = NotRunning
    /\ agg = NotRunning
    /\ lb = NotRunning
    /\ scan = NotRunning
    /\ watch = NotRunning
    /\ store = NotRunning

\* The server of the current iteration.
Host == auto.servers[auto.aidx + 1]

\* A loop that gives up at the first server it cannot connect to.
AutoConnectOrReturn ==
    /\ auto.apc = "connect"
    /\ auto.aidx < Len(auto.servers)
    /\ \E ok \in BOOLEAN :
          auto' = [auto EXCEPT
                      !.attempts = Append(@, [server |-> Host, call |-> "sshConnect",
                                              ok |-> ok]),
                      !.clients = IF ok THEN Append(@, Host) ELSE @,
                      !.apc = IF ok THEN "execute" ELSE "returned"]
    /\ UNCHANGED autoOthers

\* client, err := sshConnect(server): on an error, log and continue.
AutoConnect ==
    /\ auto.apc = "connect"
    /\ auto.aidx < Len(auto.servers)
    /\ \E ok \in BOOLEAN :
          auto' = [auto EXCEPT
                      !.attempts = Append(@, [server |-> Host, call |-> "sshConnect",
                                              ok |-> ok]),
                      !.clients = IF ok THEN Append(@, Host) ELSE @,
                      !.aidx = IF ok THEN @ ELSE @ + 1,
                      !.apc = IF ok THEN "execute" ELSE "connect"]
    /\ UNCHANGED autoOthers

\* output, err := executeCommand(client, cmd): log or print, next server.
AutoExecute ==
    /\ auto.apc = "execute"
    /\ \E res \in ExecuteResults :
          auto' = [auto EXCEPT
                      !.attempts = Append(@, [server |-> Host, call |-> "executeCommand",
                                              ok |-> res = "output"]),
                      !.aidx = @ + 1,
                      !.apc = "connect"]
    /\ UNCHANGED autoOthers

\* The loop is over: the deferred client.Close calls run, and return.
AutoReturn ==
    /\ auto.apc = "connect"
    /\ auto.aidx = Len(auto.servers)
    /\ auto' = [auto EXCEPT !.clients = << >>, !.apc = "returned"]
    /\ UNCHANGED autoOthers

AutoNext ==
    \/ AutoConnect
    \/ AutoExecute
    \/ AutoReturn

AutoSpec == AutoInit /\ [][AutoNext]_vars

(***************************************************************************)
(* src/unnamed/part_001: the task manager                                  *)
(*                                                                         *)
(* Every command is one run of the program: it loads tasks.json, changes   *)
(* the list and saves it.  A run whose load or save fails changes nothing. *)
(***************************************************************************)

\* Most tasks the file holds at a time (add is not followed beyond it).
MaxTasks == 3

Descriptions == {"a", "b"}

\* The ids done and delete are given: main rejects all but positive numbers.
TaskIDs == 1..(MaxTasks + 1)

\* type Task
Task(id, description, completed) ==
    [ID |-> id, Description |-> description, Completed |-> completed]

\* Whether reading and writing tasks.json worked in this run.
FileResults == { "ok", "failed to read tasks file", "failed to save tasks file" }

StoreInit ==
    /\ store = [tasks |-> << >>,   \* tasks.json; no file yet: no tasks
                out |-> ""]        \* what the latest run printed
    /\ CicdNotRunning
    /\ once = NotRunning
    /\ agg = NotRunning
    /\ lb = NotRunning
    /\ scan = NotRunning
    /\ watch = NotRunning
    /\ auto = NotRunning

\* A run that fails on the file prints the error and leaves the file alone.
Run(io, saved, printed) ==
    /\ store' = IF io = "ok"
                THEN [tasks |-> saved, out |-> printed]
                ELSE [store EXCEPT !.out = io]
    /\ UNCHANGED storeOthers

\* for i, task := range tasks { if task.ID == id {...; break} }: the index
\* of the first task with that id, 0 when there is none.
Find(id) ==
    IF \E k \in 1..Len(store.tasks) : store.tasks[k].ID = id
    THEN CHOOSE k \in 1..Len(store.tasks) :
             /\ store.tasks[k].ID = id
             /\ \A j \in 1..(k - 1) : store.tasks[j].ID # id
    ELSE 0

\* addTask: id := len(tasks) + 1
addTask(description, io) ==
    /\ Len(store.tasks) < MaxTasks
    /\ Run(io,
           Append(store.tasks, Task(Len(store.tasks) + 1, description, FALSE)),
           "Task added successfully!")

\* listTasks
listTasks(io) ==
    /\ io # "failed to save tasks file"
    /\ Run(io, store.tasks,
           IF Len(store.tasks) = 0 THEN "No tasks found." ELSE "Tasks:")

\* markTaskDone
markTaskDone(id, io) ==
    LET k == Find(id) IN
    IF k = 0
    THEN /\ io # "failed to save tasks file"
         /\ Run(io, store.tasks, "task not found")
    ELSE Run(io, [store.tasks EXCEPT ![k].Completed = TRUE], "Task marked as done.")

\* deleteTask: tasks = append(tasks[:i], tasks[i+1:]...)
deleteTask(id, io) ==
    LET k == Find(id) IN
    IF k = 0
    THEN /\ io # "failed to save tasks file"
         /\ Run(io, store.tasks, "task not found")
    ELSE Run(io,
             SubSeq(store.tasks, 1, k - 1) \o SubSeq(store.tasks, k + 1, Len(store.tasks)),
             "Task deleted successfully.")

StoreNext ==
    \/ \E d \in Descriptions, io \in FileResults : addTask(d, io)
    \/ \E io \in FileResults : listTasks(io)
    \/ \E id \in TaskIDs, io \in FileResults : markTaskDone(id, io)
    \/ \E id \in TaskIDs, io \in FileResults : deleteTask(id, io)

StoreSpec == StoreInit /\ [][StoreNext]_vars

(***************************************************************************)
(* Properties                                                              *)
(***************************************************************************)

Terminal(status) == status \in {"Success", "Failed"}

PhaseRank(status) ==
    CASE status = "Pending" -> 0
      [] status = "In Progress" -> 1
      [] Terminal(status) -> 2
      [] OTHER -> -1

\* The record stored for request r's build.
RecordOf(r) == buildStatuses[buildID[r]]

Stored(r) == buildID[r] \in DOMAIN buildStatuses

Finished(r) == epc[r] = "done" /\ Stored(r)

\* Every step of r's pipeline has run and succeeded.
AllSucceeded(r) ==
    /\ Len(ran[r]) = Len(config[r])
    /\ \A k \in 1..Len(ran[r]) : ran[r][k].err = Nil

\* Some step of r's pipeline has run and failed.
SomeFailed(r) == \E k \in 1..Len(ran[r]) : ran[r][k].err # Nil

IsPrefix(s, t) == Len(s) <= Len(t) /\ SubSeq(t, 1, Len(s)) = s

\* C1: in every step, every record stays in the store, its phase does not
\* move backwards along Pending -> In Progress -> (Success | Failed), and a
\* record that shows Success or Failed keeps that phase.
C1_PhaseMonotonic ==
    [][\A id \in DOMAIN buildStatuses :
          /\ id \in DOMAIN buildStatuses'
          /\ PhaseRank(buildStatuses[id].Status) >= 0
          /\ PhaseRank(buildStatuses[id].Status) <= PhaseRank(buildStatuses'[id].Status)
          /\ Terminal(buildStatuses[id].Status) =>
                 buildStatuses'[id].Status = buildStatuses[id].Status]_vars

\* A build whose record was Failed when the goroutine wrote it once more.
C1_Witness ==
    \E r \in Requests : Finished(r) /\ RecordOf(r).Status = "Failed"

\* C2: once a build's goroutine has finished, the record's phase is Success
\* exactly when every step of the pipeline succeeded, and Failed exactly when
\* some step failed.
C2_FinalPhase ==
    \A r \in Requests :
        epc[r] = "done" =>
            /\ Stored(r)
            /\ RecordOf(r).Status = "Success" <=> AllSucceeded(r)
            /\ RecordOf(r).Status = "Failed" <=> SomeFailed(r)

\* Two finished builds: one of the empty pipeline, one with a failed step.
C2_Witness ==
    \E r, q \in Requests :
        /\ Finished(r) /\ Len(config[r]) = 0 /\ RecordOf(r).Status = "Success"
        /\ Finished(q) /\ SomeFailed(q) /\ RecordOf(q).Status = "Failed"

\* C3: the steps a build has started are steps 1, 2, ... of its pipeline, in
\* that order and each once, and every started step but the last succeeded:
\* nothing is started after a failed step.
C3_StepOrder ==
    \A r \in Requests :
        /\ Len(ran[r]) <= Len(config[r])
        /\ \A k \in 1..Len(ran[r]) :
              /\ ran[r][k].step = k
              /\ ran[r][k].name = config[r][k].Name
              /\ k < Len(ran[r]) => ran[r][k].err = Nil
        /\ epc[r] = "running" =>
              /\ i[r] = Len(ran[r]) + 1
              /\ \A k \in 1..Len(ran[r]) : ran[r][k].err = Nil

\* A finished build of a two-step pipeline whose first step failed, so that
\* its second step never ran; and one whose two steps both ran.
C3_Witness ==
    \E r, q \in Requests :
        /\ epc[r] = "done" /\ Len(config[r]) = 2
        /\ Len(ran[r]) = 1 /\ ran[r][1].err # Nil
        /\ epc[q] = "done" /\ Len(ran[q]) = 2

\* C4: a finished build whose steps 1..k succeeded and whose step k+1 failed
\* has phase Failed and exactly k+1 log entries, the last one naming step k+1.
C4_FailedLogEntries ==
    \A r \in Requests :
        (Finished(r) /\ SomeFailed(r)) =>
            /\ RecordOf(r).Status = "Failed"
            /\ Len(RecordOf(r).Logs) = Len(ran[r])
            /\ RecordOf(r).Logs[Len(ran[r])].step = LastRan(r).name

\* C5: a finished build whose N steps all succeeded has phase Success and
\* exactly N+1 log entries: one per step, in step order, and the summary.
C5_SuccessLogEntries ==
    \A r \in Requests :
        (Finished(r) /\ AllSucceeded(r)) =>
            /\ RecordOf(r).Status = "Success"
            /\ Len(RecordOf(r).Logs) = Len(config[r]) + 1
            /\ \A k \in 1..Len(config[r]) : RecordOf(r).Logs[k].step = config[r][k].Name

\* C6: the record of a finished build with a failed step has phase Failed and
\* a log entry holding that step's name and its captured output.
C6_FailureInLogs ==
    \A r \in Requests :
        (Finished(r) /\ SomeFailed(r)) =>
            /\ RecordOf(r).Status = "Failed"
            /\ \E k \in 1..Len(RecordOf(r).Logs) :
                  /\ RecordOf(r).Logs[k].step = LastRan(r).name
                  /\ RecordOf(r).Logs[k].text = LastRan(r).output

\* C7: from the moment triggerBuild is about to start the goroutine, the
\* build's record is in the store, and at that moment it is non-terminal with
\* an empty log; a status query for an id that triggerBuild had returned is
\* never answered 404.
C7_RecordBeforeReturn ==
    /\ \A r \in Requests :
          tpc[r] \in {"go", "respond", "responded"} => Stored(r)
    /\ \A r \in Requests :
          tpc[r] = "go" =>
              /\ epc[r] = "none"
              /\ RecordOf(r).ID = buildID[r]
              /\ ~Terminal(RecordOf(r).Status)
              /\ RecordOf(r).Logs = << >>
    /\ \A r \in Requests : epc[r] # "none" => tpc[r] \in {"respond", "responded"}
    /\ lastResp.returned => lastResp.code # 404

\* A query answered 200 for a returned id whose build was between two steps.
C7_Witness ==
    /\ lastResp.returned
    /\ lastResp.code = 200
    /\ \E r \in Requests :
          /\ buildID[r] = lastResp.id
          /\ epc[r] = "loop"
          /\ Len(ran[r]) = 1
          /\ lastResp.body = RecordOf(r)

\* C8: of two successive answers to status queries of one build, the log of
\* the earlier is a prefix of the log of the later, which has at most N+1
\* entries, its per-step entries in step order.
C8_LogAppendOnly ==
    [][(lastResp.code = 200 /\ lastResp'.code = 200 /\ lastResp'.id = lastResp.id) =>
          /\ IsPrefix(lastResp.body.Logs, lastResp'.body.Logs)
          /\ \A r \in Requests :
                buildID[r] = lastResp'.id =>
                    Len(lastResp'.body.Logs) <= Len(config[r]) + 1]_vars

\* C9: a status query for an id that no triggerBuild call has returned is
\* answered 404 (an answer is sent: the server has not stopped).
C9_UnknownIdNotFound ==
    (lastResp # NoResponse /\ ~lastResp.returned) => lastResp.code = 404

\* What r's steps make the final phase.
FinalStatusOf(r) == IF SomeFailed(r) THEN "Failed" ELSE "Success"

\* The record of r's build holds only what r's own goroutine produced.
OwnRecord(r) ==
    LET rec == RecordOf(r) IN
    /\ rec.ID = buildID[r]
    /\ rec.Status = "Failed" => SomeFailed(r)
    /\ rec.Status = "Success" => (AllSucceeded(r) /\ epc[r] = "done")
    /\ \A k \in 1..Len(rec.Logs) :
          LET e == rec.Logs[k] IN
          CASE e.kind = "Step completed successfully" ->
                  /\ e.step \in 1..Len(ran[r])
                  /\ ran[r][e.step].err = Nil
            [] e.kind = "Step failed" ->
                  /\ e.step \in 1..Len(ran[r])
                  /\ ran[r][e.step].err # Nil
                  /\ e.text = ran[r][e.step].output
            [] OTHER ->
                  /\ epc[r] = "done"
                  /\ e.text = FinalStatusOf(r)

\* C10: with several builds in flight, under every interleaving, each
\* build's record holds its own id, a phase its own steps account for, and
\* only log entries of steps its own goroutine ran.
C10_BuildsIndependent ==
    \A r \in Requests : Stored(r) => OwnRecord(r)

\* Two builds in flight at once, one Failed at its first step, the other
\* past a successful first step.
C10_Witness ==
    \E r, q \in Requests :
        /\ r # q /\ Stored(r) /\ Stored(q)
        /\ epc[r] = "finalAssign" /\ RecordOf(r).Status = "Failed"
        /\ epc[q] = "loop" /\ Len(RecordOf(q).Logs) = 1
        /\ RecordOf(q).Status = "In Progress"

\* The pcs at which a goroutine is in the second half of a map write.
ExecStorePcs == {"okStore", "failStore", "finalStore"}

\* Request r's handler or goroutine has a map write in progress.
Writing(r) == tpc[r] = "store" \/ epc[r] \in ExecStorePcs

\* C11: no context reads or writes the map while a write to it by another
\* context is in progress.
C11_MutualExclusion ==
    ~(hashWriting /\ fatal \in {ConcurrentMapWrites, ConcurrentMapReadWrite})

\* C12: once the record is created and the goroutine is started, triggerBuild
\* can send its answer at once, wherever the build is.
C12_ReturnDoesNotWait ==
    \A r \in Requests :
        (Running /\ tpc[r] = "respond") =>
            /\ epc[r] # "none"
            /\ Stored(r)
            /\ ENABLED TriggerRespond(r)

\* triggerBuild has answered and no step of the build has started yet.
C12_Witness ==
    \E r \in Requests :
        /\ tpc[r] = "responded"
        /\ epc[r] = "loop" /\ i[r] = 1 /\ Len(config[r]) = 2
        /\ RecordOf(r).Status = "In Progress"

\* C13: a build whose goroutine was started either has a terminal phase in
\* the store or its goroutine can take a further step (so that, steps
\* terminating and the goroutine being scheduled, it reaches a terminal phase).
C13_EveryBuildEnds ==
    \A r \in Requests :
        epc[r] # "none" =>
            \/ Finished(r) /\ Terminal(RecordOf(r).Status)
            \/ ENABLED ExecNext(r)

\* C14: a triggerBuild call whose id already has a record fails: it answers
\* with an error, starts no goroutine and leaves the store as it was.
C14_DuplicateCreateFails ==
    [][\A r \in Requests :
          (tpc[r] = "store" /\ buildID[r] \in DOMAIN buildStatuses /\ tpc'[r] # "store") =>
              /\ buildStatuses' = buildStatuses
              /\ tpc'[r] = "error500"
              /\ epc'[r] = "none"]_vars

\* C15: a step of a goroutine whose id has no record leaves the set of ids in
\* the store unchanged.
C15_UpdateCreatesNothing ==
    [][\A r \in Requests :
          (epc[r] # "none" /\ buildID[r] \notin DOMAIN buildStatuses /\ epc'[r] # epc[r]) =>
              DOMAIN buildStatuses' = DOMAIN buildStatuses]_vars

Phases == {"Pending", "In Progress", "Success", "Failed"}

\* C16: after every step, every record has the id it is stored under and one
\* of the four phases, and every record of before the step is still there.
C16_RecordsWellFormed ==
    [][/\ \A id \in DOMAIN buildStatuses' :
             /\ buildStatuses'[id].ID = id
             /\ buildStatuses'[id].Status \in Phases
       /\ DOMAIN buildStatuses \subseteq DOMAIN buildStatuses']_vars

\* Two records, one Failed and one Success.
C16_Witness ==
    \E a, b \in DOMAIN buildStatuses :
        buildStatuses[a].Status = "Failed" /\ buildStatuses[b].Status = "Success"

\* C17: no two requests have the same id, and a step that changes an
\* existing record is a step of the goroutine started for that record's id,
\* and of no other goroutine or handler.
C17_SingleWriter ==
    [][/\ \A r, q \in Requests :
             (r # q /\ buildID'[r] # NoSuchID) => buildID'[r] # buildID'[q]
       /\ \A id \in DOMAIN buildStatuses :
             (id \in DOMAIN buildStatuses' /\ buildStatuses'[id] # buildStatuses[id]) =>
                 \E r \in Requests :
                     /\ buildID[r] = id
                     /\ epc[r] \in ExecStorePcs
                     /\ epc'[r] \notin ExecStorePcs
                     /\ tpc' = tpc
                     /\ lastResp' = lastResp
                     /\ \A q \in Requests \ {r} : epc'[q] = epc[q]]_vars

\* One goroutine is in the middle of its last write while the other build,
\* one step done, runs its second step.
C17_Witness ==
    \E r, q \in Requests :
        /\ r # q
        /\ epc[r] = "finalStore"
        /\ epc[q] = "running" /\ Len(ran[q]) = 1
        /\ Len(RecordOf(q).Logs) = 1

\* C18: whatever the kind of a step's error, once the step's write is done
\* the pipeline has stopped, the record is Failed with the entry "Step <name>
\* failed: <output>", and ExecutePipeline returns an error.
C18_FailureKindsAlike ==
    \A r \in Requests :
        (Stored(r) /\ Len(ran[r]) > 0 /\ ran[r][Len(ran[r])].err # Nil) =>
            /\ epc[r] \in {"failAssign", "failStore", "finalAssign", "finalStore", "done"}
            /\ epc[r] \in {"finalAssign", "finalStore"} =>
                  /\ RecordOf(r).Status = "Failed"
                  /\ Len(RecordOf(r).Logs) = 1
                  /\ RecordOf(r).Logs[1].kind = "Step failed"
                  /\ RecordOf(r).Logs[1].step = ran[r][Len(ran[r])].name
                  /\ RecordOf(r).Logs[1].text = ran[r][Len(ran[r])].output
                  /\ err[r] # Nil
            /\ epc[r] = "done" => RecordOf(r).Status = "Failed"

\* Two builds stopped at a failed step, one by a non-zero exit status and one
\* by a command that could not be started.
C18_Witness ==
    \E r, q \in Requests :
        /\ epc[r] = "finalAssign" /\ epc[q] = "finalAssign"
        /\ Len(ran[r]) > 0 /\ Len(ran[q]) > 0
        /\ LastRan(r).err = "exit status 1"
        /\ LastRan(q).err = "exec: executable file not found"
        /\ RecordOf(r).Status = "Failed" /\ RecordOf(q).Status = "Failed"

\* C19: while the command of a step of r is executing, r's goroutine has no
\* map write in progress, and unless another context has one, every status
\* query can be served and is answered (200 or 404).
C19_QueryNotBlockedByStep ==
    \A r \in Requests :
        (Running /\ epc[r] = "running") =>
            /\ hashWriting => \E q \in Requests \ {r} : Writing(q)
            /\ ~hashWriting =>
                  \A id \in UUIDs \cup {NoSuchID} :
                      ENABLED (CheckStatus(id) /\ lastResp'.code \in {200, 404})

\* A query answered 200 while a step was executing, for the build whose step
\* is executing.
C19_Witness ==
    /\ lastResp.busy
    /\ lastResp.code = 200
    /\ \E r \in Requests : epc[r] = "running" /\ lastResp.id = buildID[r]

\* C20: no pipeline definition makes the executor abort the process.
C20_NoAbort == fatal # IndexOutOfRange

\* C21: a triggerBuild call whose LoadConfig fails answers 500 in a step that
\* changes nothing else, and a request answered 500 has no id, no record
\* stored by it and no goroutine, then and ever after.
C21_LoadConfigFailure ==
    [][\A r \in Requests :
          /\ (tpc[r] = "idle" /\ tpc'[r] = "error500") =>
                 /\ buildStatuses' = buildStatuses
                 /\ hashWriting' = hashWriting
                 /\ fatal' = fatal
                 /\ buildID' = buildID
                 /\ config' = config
                 /\ epc' = epc
                 /\ \A q \in Requests \ {r} : tpc'[q] = tpc[q]
          /\ tpc'[r] = "error500" =>
                 /\ tpc[r] \in {"idle", "error500"}
                 /\ buildID'[r] = NoSuchID
                 /\ epc'[r] = "none"]_vars

\* The second request was answered 500 while the first build, its record
\* stored, was running a step.
C21_Witness ==
    /\ tpc[2] = "error500"
    /\ Stored(1) /\ epc[1] = "running"
    /\ DOMAIN buildStatuses = {buildID[1]}

\* C22: at most one Aggregator is ever constructed and at most one consumer
\* goroutine started, and a call of getAggregatorInstance returns only after
\* the one Aggregator was constructed and started, and returns that one.
C22_Singleton ==
    /\ once.constructed <= 1
    /\ Len(once.consumers) <= 1
    /\ \A c \in Callers :
          once.gpc[c] = "returned" =>
              /\ once.got[c] # NilAggregator
              /\ once.constructed = 1
              /\ once.consumers = << once.got[c] >>
              /\ \A d \in Callers :
                    once.gpc[d] = "returned" => once.got[d] = once.got[c]

\* All three calls have returned, and one Aggregator was built.
C22_Witness ==
    /\ \A c \in Callers : once.gpc[c] = "returned"
    /\ once.constructed = 1

\* The latest read of lb.index by caller c.
LastPick(c) ==
    lb.picked[CHOOSE k \in 1..Len(lb.picked) :
                  /\ lb.picked[k].caller = c
                  /\ \A j \in (k + 1)..Len(lb.picked) : lb.picked[j].caller # c]

\* C23: the calls taken in the order they acquire the lock, the k-th reads
\* index (k-1) mod n and gets, and returns, servers[(k-1) mod n]; any n
\* consecutive calls get n different servers; the index stays in 0..n-1.
C23_RoundRobin ==
    LET n == Len(lb.servers) IN
    /\ lb.index \in 0..(n - 1)
    /\ \A k \in 1..Len(lb.picked) :
          /\ lb.picked[k].index = (k - 1) % n
          /\ lb.picked[k].server = lb.servers[((k - 1) % n) + 1]
    /\ \A k \in 1..(Len(lb.picked) - n + 1) :
          Cardinality({ lb.picked[j].server : j \in k..(k + n - 1) }) = n
    /\ \A c \in Callers :
          lb.lpc[c] \in {"write", "unlock", "return"} =>
              lb.server[c] = LastPick(c).server

\* Four calls over three servers, so that the index has wrapped around, by
\* three callers, the fourth call about to return the first server again.
C23_Witness ==
    /\ Len(lb.servers) = 3
    /\ Len(lb.picked) = 4
    /\ { lb.picked[k].caller : k \in 1..3 } = Callers
    /\ \E c \in Callers : lb.lpc[c] = "return" /\ lb.server[c] = lb.servers[1]

\* The goroutines started and not yet ended.
ScanRunning == { p \in DOMAIN scan.gst : scan.gst[p] \in {"scan", "recv"} }

\* C24: at most 10 scan goroutines are running at any moment; the go
\* statements executed are those of the ports before the loop's position, one
\* each and in order, and all of the list once the function has returned; and
\* a loop that has not returned can go on, or some goroutine can.
C24_AtMostTenRunning ==
    /\ Cardinality(ScanRunning) <= 10
    /\ scan.sem <= 10
    /\ scan.launched = SubSeq(scan.ports, 1, scan.sidx)
    /\ \A p \in DOMAIN scan.gst : scan.gst[p] = "none" <=> p > scan.sidx
    /\ scan.spc = "returned" => scan.launched = scan.ports
    /\ scan.spc # "returned" =>
          \/ ENABLED (ScanSend \/ ScanGo \/ ScanReturn)
          \/ \E p \in ScanRunning : ENABLED (ScanPort(p) \/ ScanRelease(p))

\* Ten goroutines are running and the loop waits to send the token of the
\* eleventh port.
C24_Witness ==
    /\ Cardinality(ScanRunning) = 10
    /\ scan.spc = "loop"
    /\ scan.sidx = 10
    /\ Len(scan.ports) = 11
    /\ ~ENABLED ScanSend

\* C25: when concurrentPortScan has returned, the goroutine of every port
\* has ended.
C25_ReturnAfterScans ==
    scan.spc = "returned" => \A p \in DOMAIN scan.gst : scan.gst[p] = "done"

\* The entries Submit has accepted, in the order the channel took them: those
\* stored, the one the goroutine holds, those in the buffer.
Accepted ==
    agg.logs \o (IF agg.cpc = "range" THEN << >> ELSE << agg.clog >>) \o agg.input

\* The entries of client c in s.
From(s, c) == SelectSeq(s, LAMBDA e : e.Source = c)

\* The clients have finished and the goroutine is idle on the empty channel.
AggQuiet ==
    /\ \A c \in Submitters : agg.sent[c] = Quota(c)
    /\ agg.input = << >>
    /\ agg.cpc = "range"

\* C26: a step either leaves the sequence of accepted entries as it is or a
\* Submit, with room in the buffer of 100, adds its client's next entry at
\* the end (nothing accepted is dropped, repeated or moved); the stored logs,
\* which GetLogs copies, only grow, by the oldest accepted entry not yet
\* stored; an entry on its way can always move on; Submit waits while the
\* buffer is full; and once the clients have finished and the goroutine is
\* idle, the logs hold every client's entries, each once and in its order.
C26_EveryEntryStoredOnce ==
    [][LET acc == Accepted
           next == Accepted'
       IN  /\ \/ next = acc /\ agg'.sent = agg.sent
              \/ \E c \in Submitters :
                    /\ agg'.sent = [agg.sent EXCEPT ![c] = @ + 1]
                    /\ next = Append(acc, LogEntry(c, agg.sent[c] + 1))
                    /\ Len(agg.input) < 100
           /\ \/ agg'.logs = agg.logs
              \/ agg'.logs = Append(agg.logs, acc[Len(agg.logs) + 1])
           /\ Len(next) = agg'.sent[1] + agg'.sent[2]
           /\ Len(agg'.input) <= 100
           /\ Len(agg'.input) = 100 => \A c \in Submitters : ~(ENABLED Submit(c))'
           /\ (agg'.input # << >> \/ agg'.cpc # "range") =>
                 (ENABLED (ConsumerReceive \/ ConsumerLock \/ ConsumerAppend
                              \/ GetLogsReturn))'
           /\ AggQuiet' =>
                 \A c \in Submitters :
                     From(GetLogsResult', c) = [k \in 1..Quota(c) |-> LogEntry(c, k)]]_vars

\* The buffer is full with a Submit waiting, the second client's entry among
\* the buffered ones.
C26_Witness ==
    /\ Len(agg.input) = 100
    /\ agg.sent[1] < MaxBulk
    /\ agg.sent[2] = 1
    /\ \E k \in 2..99 : agg.input[k].Source = 2

\* The commands call d of deploy has run, in order.
CommandsOf(d) == SelectSeq(watch.cmds, LAMBDA e : e.call = d)

\* The calls of deploy that have not returned to the loop's select.
Deploying == { d \in DOMAIN watch.dpc : watch.dpc[d] \in {"pull", "build", "deploy"} }

\* C27: the commands of a call of deploy are pull, build, deploy, in that
\* order, each run only after the one before succeeded and none after a
\* failure; a call ends failed exactly when its last command failed and
\* completed exactly when all three succeeded; and two calls never overlap:
\* at most one is under way, the loop is inside it, and the commands of an
\* earlier call all come before those of a later one.
C27_StagesInOrder ==
    /\ \A d \in DOMAIN watch.dpc :
          LET own == CommandsOf(d) IN
          /\ Len(own) <= 3
          /\ \A k \in 1..Len(own) :
                /\ own[k].cmd = Stages[k]
                /\ k < Len(own) => own[k].ok
          /\ watch.dpc[d] = "failed" <=> (Len(own) > 0 /\ ~own[Len(own)].ok)
          /\ watch.dpc[d] = "completed" <=> (Len(own) = 3 /\ own[3].ok)
          /\ watch.dpc[d] \in {"pull", "build", "deploy"} =>
                watch.dpc[d] = Stages[Len(own) + 1]
    /\ Cardinality(Deploying) <= 1
    /\ \A d \in Deploying : d = Len(watch.dpc) /\ watch.wpc = "deploy"
    /\ \A j, k \in 1..Len(watch.cmds) :
          j < k => watch.cmds[j].call <= watch.cmds[k].call

\* Two deployments, one after the other: the first failed at the build, the
\* second ran all three commands, while a third change was waiting.
C27_Witness ==
    /\ watch.dpc = << "failed", "completed" >>
    /\ Len(CommandsOf(1)) = 2
    /\ Len(watch.cmds) = 5
    /\ Len(watch.events) = 1

\* The servers sshConnect was called for, in call order.
Connects ==
    LET c == SelectSeq(auto.attempts, LAMBDA e : e.call = "sshConnect")
    IN  [k \in 1..Len(c) |-> c[k].server]

\* C28: the servers automateTasks has connected to are the first of the list,
\* each once and in list order, whatever the results before, and the whole
\* list once it has returned; executeCommand is called for a server exactly
\* when, and right after, sshConnect succeeded for it.
C28_EveryServerOnce ==
    /\ Connects = SubSeq(auto.servers, 1,
                         IF auto.apc = "execute" THEN auto.aidx + 1 ELSE auto.aidx)
    /\ auto.apc = "returned" => Connects = auto.servers
    /\ \A k \in 1..Len(auto.attempts) :
          LET e == auto.attempts[k] IN
          /\ e.call = "executeCommand" =>
                /\ k > 1
                /\ auto.attempts[k - 1] = [server |-> e.server, call |-> "sshConnect",
                                          ok |-> TRUE]
          /\ (e.call = "sshConnect" /\ e.ok) =>
                IF k = Len(auto.attempts)
                THEN auto.apc = "execute"
                ELSE /\ auto.attempts[k + 1].call = "executeCommand"
                     /\ auto.attempts[k + 1].server = e.server

\* A list of four servers done: no connection to the first, a failed command
\* on the second, and the last two still tried, the third with success.
C28_Witness ==
    /\ auto.apc = "returned"
    /\ Len(auto.servers) = 4
    /\ Len(auto.attempts) = 7
    /\ ~auto.attempts[1].ok
    /\ auto.attempts[3].call = "executeCommand" /\ ~auto.attempts[3].ok
    /\ auto.attempts[5].call = "executeCommand" /\ auto.attempts[5].ok

\* C29: the ids of the tasks in the file are pairwise different.
C29_DistinctIDs ==
    \A j, k \in 1..Len(store.tasks) :
        j # k => store.tasks[j].ID # store.tasks[k].ID

====
